---- MODULE Spec2Model ----
(***************************************************************************)
(* A model of parser.py: the resume field extractors, the per-document     *)
(* assembly (parse_file) and the batch loop (parse_folder).                *)
(*                                                                         *)
(* Python strings are TLA+ strings.  The regular expressions of the source *)
(* are kept as regular expressions: each pattern is written as a syntax    *)
(* tree and run by a backtracking matcher with the priorities of Python's  *)
(* re module (leftmost start, alternatives left to right, greedy and lazy  *)
(* repetition).  Characters outside ASCII cannot be written in a TLA+      *)
(* string, so the inputs are ASCII; the two non-ASCII characters the       *)
(* program itself produces or replaces have stand-ins (NUL, EN_DASH).      *)
(***************************************************************************)
EXTENDS Integers, Sequences, FiniteSets, TLC

VARIABLES
    pc,        \* position of the running call
    text,      \* the string argument of the function under study
    vocab,     \* the skills vocabulary handed to extract_skills
    result,    \* what the function returned
    folder,    \* parse_folder: the directory listing, in glob order
    idx,       \* parse_folder: number of entries of the listing consumed
    records    \* parse_folder: the records list

vars == <<pc, text, vocab, result, folder, idx, records>>

-----------------------------------------------------------------------------
(* Characters *)

NUL == "^"        \* stands for "\x00"
EN_DASH == "~"    \* stands for U+2013, the dash parse output joins with

UpperAlpha == "ABCDEFGHIJKLMNOPQRSTUVWXYZ"
LowerAlpha == "abcdefghijklmnopqrstuvwxyz"
DigitChars == "0123456789"

Ch(s, i) == SubSeq(s, i, i)

CharsOf(s) == {Ch(s, i) : i \in 1..Len(s)}

UPPER == CharsOf(UpperAlpha)
LOWER == CharsOf(LowerAlpha)
LETTER == UPPER \cup LOWER
DIGIT == CharsOf(DigitChars)
\* str.isspace / \s restricted to ASCII
SPACE == {" ", "\t", "\n", "\r", "\f"}
\* the line boundaries of str.splitlines restricted to the alphabet
LINE_END == {"\n", "\r", "\f"}

AlphaIndex(alpha, c) == CHOOSE i \in 1..Len(alpha) : Ch(alpha, i) = c

ToLower == [c \in UPPER |-> Ch(LowerAlpha, AlphaIndex(UpperAlpha, c))]
ToUpper == [c \in LOWER |-> Ch(UpperAlpha, AlphaIndex(LowerAlpha, c))]

LowerCh(c) == IF c \in UPPER THEN ToLower[c] ELSE c
UpperCh(c) == IF c \in LOWER THEN ToUpper[c] ELSE c
SwapCh(c) == IF c \in UPPER THEN LowerCh(c) ELSE UpperCh(c)

-----------------------------------------------------------------------------
(* str methods.  The recursions halve their range, so that their depth is *)
(* the logarithm of the length of the string.                              *)

MaxOf(S) == CHOOSE x \in S : \A y \in S : y <= x
MinOf(S) == CHOOSE x \in S : \A y \in S : x <= y

\* parts[lo] \o ... \o parts[hi]
RECURSIVE ConcatRange(_, _, _)
ConcatRange(parts, lo, hi) ==
    IF lo > hi THEN ""
    ELSE IF lo = hi THEN parts[lo]
    ELSE LET mid == (lo + hi) \div 2
         IN  ConcatRange(parts, lo, mid) \o ConcatRange(parts, mid + 1, hi)

Concat(parts) == ConcatRange(parts, 1, Len(parts))

\* the members of S between lo and hi, in increasing order
RECURSIVE AscendingRange(_, _, _)
AscendingRange(S, lo, hi) ==
    IF lo > hi THEN <<>>
    ELSE IF lo = hi THEN (IF lo \in S THEN <<lo>> ELSE <<>>)
    ELSE LET mid == (lo + hi) \div 2
         IN  AscendingRange(S, lo, mid) \o AscendingRange(S, mid + 1, hi)

lower(s) == Concat([k \in 1..Len(s) |-> LowerCh(Ch(s, k))])

\* str.title: a letter is upper cased after a character that is no letter
\* (and at the start), lower cased after a letter
title(s) ==
    Concat([k \in 1..Len(s) |->
              IF Ch(s, k) \notin LETTER THEN Ch(s, k)
              ELSE IF k > 1 /\ Ch(s, k - 1) \in LETTER THEN LowerCh(Ch(s, k))
              ELSE UpperCh(Ch(s, k))])

\* str.isupper: at least one cased character and no lower-case one
isupper(s) == (\E i \in 1..Len(s) : Ch(s, i) \in UPPER)
              /\ (\A i \in 1..Len(s) : Ch(s, i) \notin LOWER)

\* str.lstrip(cs), str.rstrip(cs), str.strip(cs)
LStripSet(s, cs) ==
    LET kept == {k \in 1..Len(s) : Ch(s, k) \notin cs}
    IN  IF kept = {} THEN "" ELSE SubSeq(s, MinOf(kept), Len(s))

RStripSet(s, cs) ==
    LET kept == {k \in 1..Len(s) : Ch(s, k) \notin cs}
    IN  IF kept = {} THEN "" ELSE SubSeq(s, 1, MaxOf(kept))

StripSet(s, cs) == RStripSet(LStripSet(s, cs), cs)

\* str.strip() with no argument
strip(s) == StripSet(s, SPACE)

startswith(s, p) == Len(s) >= Len(p) /\ SubSeq(s, 1, Len(p)) = p

\* p in s, for strings
Contains(s, p) == \E i \in 1..(Len(s) - Len(p) + 1) : SubSeq(s, i, i + Len(p) - 1) = p

\* str.split() with no argument: the maximal runs of non-space characters
split(s) ==
    LET starts == AscendingRange(
                      {k \in 1..Len(s) : Ch(s, k) \notin SPACE /\ (k = 1 \/ Ch(s, k - 1) \in SPACE)},
                      1, Len(s))
        EndOf(k) == MinOf({e \in k..Len(s) : e = Len(s) \/ Ch(s, e + 1) \in SPACE})
    IN  [j \in 1..Len(starts) |-> SubSeq(s, starts[j], EndOf(starts[j]))]

\* str.split(sep) for a one-character separator: empty pieces are kept
SplitOn(s, sep) ==
    LET seps == AscendingRange({k \in 1..Len(s) : Ch(s, k) = sep}, 1, Len(s))
    IN  [j \in 1..(Len(seps) + 1) |->
            SubSeq(s, IF j = 1 THEN 1 ELSE seps[j - 1] + 1,
                      IF j <= Len(seps) THEN seps[j] - 1 ELSE Len(s))]

\* str.splitlines(): "\r\n" is one boundary, and no empty last line
splitlines(s) ==
    LET BreakEnd(k) == IF Ch(s, k) = "\r" /\ k < Len(s) /\ Ch(s, k + 1) = "\n" THEN k + 1 ELSE k
        breaks == AscendingRange(
                      {k \in 1..Len(s) : /\ Ch(s, k) \in LINE_END
                                         /\ ~(Ch(s, k) = "\n" /\ k > 1 /\ Ch(s, k - 1) = "\r")},
                      1, Len(s))
        StartOf(j) == IF j = 1 THEN 1 ELSE BreakEnd(breaks[j - 1]) + 1
        ended == [j \in 1..Len(breaks) |-> SubSeq(s, StartOf(j), breaks[j] - 1)]
    IN  IF StartOf(Len(breaks) + 1) <= Len(s)
        THEN Append(ended, SubSeq(s, StartOf(Len(breaks) + 1), Len(s)))
        ELSE ended

\* sep.join(parts)
join(sep, parts) ==
    Concat([k \in 1..Len(parts) |-> IF k = 1 THEN parts[k] ELSE sep \o parts[k]])

\* x in list
InList(x, l) == \E i \in 1..Len(l) : l[i] = x

\* list[:n]
Take(l, n) == SubSeq(l, 1, IF Len(l) < n THEN Len(l) ELSE n)

-----------------------------------------------------------------------------
(* The re module.  A pattern is a tree of the nodes below; Flags are the   *)
(* re.I, re.S and re.M switches.  A position is the 1-based index of the   *)
(* next character to read.                                                 *)

Set(cs) == [t |-> "set", cs |-> cs]
Lit(c) == Set({c})
Dot == [t |-> "any"]                       \* .
Cat(rs) == [t |-> "seq", rs |-> rs]
Alt(rs) == [t |-> "alt", rs |-> rs]        \* r1|r2|...
\* r{lo,hi}, hi = -1 for no upper limit; greedy or lazy
Rep(r, lo, hi, greedy) == [t |-> "rep", r |-> r, lo |-> lo, hi |-> hi, greedy |-> greedy]
Star(r) == Rep(r, 0, -1, TRUE)
Plus(r) == Rep(r, 1, -1, TRUE)
Opt(r) == Rep(r, 0, 1, TRUE)
Grp(n, r) == [t |-> "grp", n |-> n, r |-> r]   \* the n-th capturing group
EndGrp(n, from) == [t |-> "endgrp", n |-> n, from |-> from]
Bol == [t |-> "bol"]                       \* ^
Eol == [t |-> "eol"]                       \* $
NotBehind(cs) == [t |-> "notbehind", cs |-> cs]   \* (?<![cs])
NotAhead(cs) == [t |-> "notahead", cs |-> cs]     \* (?![cs])

\* a string of literal characters (and re.escape of a string)
Str(s) == [t |-> "str", s |-> s]

Flags(i, s, m) == [i |-> i, s |-> s, m |-> m]
NoFlags == Flags(FALSE, FALSE, FALSE)

MaxGroups == 3
NoGroup == <<0, 0>>
NoCaps == [n \in 1..MaxGroups |-> NoGroup]
NoMatch == [ok |-> FALSE, start |-> 0, end |-> 0, caps |-> NoCaps]

InSet(c, cs, fl) == c \in cs \/ (fl.i /\ SwapCh(c) \in cs)

SameStr(a, b, fl) ==
    IF fl.i THEN \A k \in 1..Len(a) : LowerCh(Ch(a, k)) = LowerCh(Ch(b, k)) ELSE a = b

\* whether the one-character node r (a set, or the dot) takes the character c
Takes(r, c, fl) == IF r.t = "set" THEN InSet(c, r.cs, fl) ELSE (fl.s \/ c # "\n")

\* how many characters from position i on the one-character node r takes in
\* a row, hi at most (hi < 0: no limit)
RunLength(r, s, i, hi, fl) ==
    IF i > Len(s) \/ ~Takes(r, Ch(s, i), fl) THEN 0
    ELSE LET stop == MinOf({j \in i..(Len(s) + 1) : j = Len(s) + 1 \/ ~Takes(r, Ch(s, j), fl)})
         IN  IF hi < 0 \/ stop - i < hi THEN stop - i ELSE hi

\* ^: the start of the text, and under re.M the position after a newline
AtBol(s, i, fl) == i = 1 \/ (fl.m /\ Ch(s, i - 1) = "\n")
\* $: the end of the text or before its last newline, and under re.M before
\* any newline
AtEol(s, i, fl) ==
    \/ i = Len(s) + 1
    \/ (i = Len(s) /\ Ch(s, i) = "\n")
    \/ (fl.m /\ i <= Len(s) /\ Ch(s, i) = "\n")

\* The first way, in the matcher's order of trial, in which the nodes of k,
\* one after the other, match s from position i.
RECURSIVE Run(_, _, _, _, _)
Run(k, s, i, caps, fl) ==
    IF k = <<>> THEN [ok |-> TRUE, start |-> 0, end |-> i, caps |-> caps]
    ELSE
    LET r == k[1]
        rest == Tail(k)
    IN  CASE r.t = "set" ->
               IF i <= Len(s) /\ InSet(Ch(s, i), r.cs, fl)
               THEN Run(rest, s, i + 1, caps, fl) ELSE NoMatch
          [] r.t = "any" ->
               IF i <= Len(s) /\ (fl.s \/ Ch(s, i) # "\n")
               THEN Run(rest, s, i + 1, caps, fl) ELSE NoMatch
          [] r.t = "str" ->
               IF i + Len(r.s) - 1 <= Len(s) /\ SameStr(SubSeq(s, i, i + Len(r.s) - 1), r.s, fl)
               THEN Run(rest, s, i + Len(r.s), caps, fl) ELSE NoMatch
          [] r.t = "seq" -> Run(r.rs \o rest, s, i, caps, fl)
          [] r.t = "alt" ->
               IF r.rs = <<>> THEN NoMatch
               ELSE LET a == Run(<<r.rs[1]>> \o rest, s, i, caps, fl)
                    IN  IF a.ok THEN a
                        ELSE Run(<<Alt(Tail(r.rs))>> \o rest, s, i, caps, fl)
          [] r.t = "rep" /\ r.r.t \in {"set", "any"} ->
               \* a repeated character: the longest run the text allows, and
               \* of the lengths after which the rest matches the greatest
               \* (greedy) or the least (lazy)
               LET longest == RunLength(r.r, s, i, r.hi, fl)
                   ways == {n \in r.lo..longest : Run(rest, s, i + n, caps, fl).ok}
               IN  IF ways = {} THEN NoMatch
                   ELSE Run(rest, s, i + (IF r.greedy THEN MaxOf(ways) ELSE MinOf(ways)), caps, fl)
          [] r.t = "rep" /\ r.r.t \notin {"set", "any"} ->
               IF r.lo > 0
               THEN Run(<<r.r, Rep(r.r, r.lo - 1, IF r.hi < 0 THEN r.hi ELSE r.hi - 1, r.greedy)>>
                          \o rest, s, i, caps, fl)
               ELSE IF r.hi = 0 THEN Run(rest, s, i, caps, fl)
               ELSE LET more == <<r.r, Rep(r.r, 0, IF r.hi < 0 THEN r.hi ELSE r.hi - 1, r.greedy)>>
                                  \o rest
                    IN  IF r.greedy
                        THEN LET a == Run(more, s, i, caps, fl)
                             IN  IF a.ok THEN a ELSE Run(rest, s, i, caps, fl)
                        ELSE LET b == Run(rest, s, i, caps, fl)
                             IN  IF b.ok THEN b ELSE Run(more, s, i, caps, fl)
          [] r.t = "grp" -> Run(<<r.r, EndGrp(r.n, i)>> \o rest, s, i, caps, fl)
          [] r.t = "endgrp" ->
               Run(rest, s, i, [caps EXCEPT ![r.n] = <<r.from, i>>], fl)
          [] r.t = "bol" -> IF AtBol(s, i, fl) THEN Run(rest, s, i, caps, fl) ELSE NoMatch
          [] r.t = "eol" -> IF AtEol(s, i, fl) THEN Run(rest, s, i, caps, fl) ELSE NoMatch
          [] r.t = "notbehind" ->
               IF i > 1 /\ InSet(Ch(s, i - 1), r.cs, fl)
               THEN NoMatch ELSE Run(rest, s, i, caps, fl)
          [] r.t = "notahead" ->
               IF i <= Len(s) /\ InSet(Ch(s, i), r.cs, fl)
               THEN NoMatch ELSE Run(rest, s, i, caps, fl)

\* re.match(r, s): r at the start of s
MatchAt(r, s, i, fl) == [Run(<<r>>, s, i, NoCaps, fl) EXCEPT !.start = i]

\* the match at the least of the positions starts, if there is one
LeftmostMatch(r, s, starts, fl) ==
    IF starts = {} THEN NoMatch ELSE MatchAt(r, s, MinOf(starts), fl)

\* re.search(r, s), looking from position i on: the leftmost match
SearchFrom(r, s, i, fl) ==
    LeftmostMatch(r, s, {j \in i..(Len(s) + 1) : MatchAt(r, s, j, fl).ok}, fl)

Search(r, s, fl) == SearchFrom(r, s, 1, fl)

\* m.group(n), None being the empty string's place holder NONE
NONE == "<None>"
Group(s, m, n) ==
    IF m.caps[n] = NoGroup THEN NONE ELSE SubSeq(s, m.caps[n][1], m.caps[n][2] - 1)
Group0(s, m) == SubSeq(s, m.start, m.end - 1)

\* the matches re.finditer(r, s) yields: leftmost, not overlapping; m is the
\* next match
RECURSIVE FindIterFrom(_, _, _, _)
FindIterAfter(r, s, m, fl) ==
    IF ~m.ok THEN <<>>
    ELSE <<m>> \o FindIterFrom(r, s, IF m.end = m.start THEN m.end + 1 ELSE m.end, fl)

FindIterFrom(r, s, i, fl) == FindIterAfter(r, s, SearchFrom(r, s, i, fl), fl)

FindIter(r, s, fl) == FindIterFrom(r, s, 1, fl)

\* re.sub(r, repl, s) for a replacement without group references; m is the
\* next match from position i on
RECURSIVE SubFrom(_, _, _, _, _)
SubAfter(r, repl, s, i, m, fl) ==
    IF ~m.ok THEN SubSeq(s, i, Len(s))
    ELSE IF m.end = m.start
         THEN SubSeq(s, i, m.start - 1) \o repl
                \o (IF m.start <= Len(s) THEN Ch(s, m.start) ELSE "")
                \o (IF m.start <= Len(s) THEN SubFrom(r, repl, s, m.start + 1, fl) ELSE "")
         ELSE SubSeq(s, i, m.start - 1) \o repl \o SubFrom(r, repl, s, m.end, fl)

SubFrom(r, repl, s, i, fl) == SubAfter(r, repl, s, i, SearchFrom(r, s, i, fl), fl)

Sub(r, repl, s, fl) == SubFrom(r, repl, s, 1, fl)

\* re.split(r, s) for a pattern without groups that matches no empty string
RECURSIVE ReSplitFrom(_, _, _, _)
ReSplitAfter(r, s, i, m, fl) ==
    IF ~m.ok THEN <<SubSeq(s, i, Len(s))>>
    ELSE <<SubSeq(s, i, m.start - 1)>> \o ReSplitFrom(r, s, m.end, fl)

ReSplitFrom(r, s, i, fl) == ReSplitAfter(r, s, i, SearchFrom(r, s, i, fl), fl)

ReSplit(r, s, fl) == ReSplitFrom(r, s, 1, fl)

-----------------------------------------------------------------------------
(* Duplicate word removal *)

\* the loop with the comparison made on the word as spelled
RECURSIVE DedupLoopCaseSensitive(_, _, _, _)
DedupLoopCaseSensitive(words, i, seen, out) ==
    IF i > Len(words) THEN out
    ELSE LET w == words[i]
         IN  IF ~InList(w, seen)
             THEN DedupLoopCaseSensitive(words, i + 1, Append(seen, w), Append(out, w))
             ELSE DedupLoopCaseSensitive(words, i + 1, seen, out)

\* the loop of remove_duplicate_words over words[i..], with the seen and out
\* lists built so far
RECURSIVE DedupLoop(_, _, _, _)
DedupLoop(words, i, seen, out) ==
    IF i > Len(words) THEN out
    ELSE LET w == words[i]
             lw == lower(w)
         IN  IF ~InList(lw, seen)
             THEN DedupLoop(words, i + 1, Append(seen, lw), Append(out, w))
             ELSE DedupLoop(words, i + 1, seen, out)

DedupWords(words) == DedupLoop(words, 1, <<>>, <<>>)

\* (the isinstance guard passes every string, and the model has only strings)
remove_duplicate_words(t) == join(" ", DedupWords(split(t)))

-----------------------------------------------------------------------------
(* Text normalisation *)

\* str.replace(old, new) for a one-character old
ReplaceCh(s, old, new) ==
    Concat([k \in 1..Len(s) |-> IF Ch(s, k) = old THEN new ELSE Ch(s, k)])

RE_HSPACE == Plus(Set({" ", "\t"}))            \* [ \t]+
RE_CR == Lit("\r")                             \* \r
RE_NEWLINES3 == Rep(Lit("\n"), 3, -1, TRUE)    \* \n{3,}

CleanStep1(t) == ReplaceCh(t, NUL, " ")
CleanStep2(t) == Sub(RE_HSPACE, " ", t, NoFlags)
CleanStep3(t) == Sub(RE_CR, "\n", t, NoFlags)
CleanStep4(t) == Sub(RE_NEWLINES3, "\n\n", t, NoFlags)

\* the blank lines collapsed before the carriage returns become newlines
clean_text_swapped(t) == strip(CleanStep3(CleanStep4(CleanStep2(CleanStep1(t)))))

clean_text(t) == strip(CleanStep4(CleanStep3(CleanStep2(CleanStep1(t)))))

\* [ಀ-೿]: no character of the Kannada block is in the alphabet
KANNADA == {}
is_kannada(t) == Search(Set(KANNADA), t, NoFlags).ok

-----------------------------------------------------------------------------
(* Confidences.  A confidence is a rational <<numerator, denominator>>, so  *)
(* that the skills score, which divides by the vocabulary size, is exact.  *)

Conf(n, d) == <<n, d>>
ConfLeq(a, b) == a[1] * b[2] <= b[1] * a[2]
ConfMin(a, b) == IF ConfLeq(a, b) THEN a ELSE b

-----------------------------------------------------------------------------
(* Name extraction *)

NameWindow == 30
MinNameLineLen == 5
MinNameWords == 2
MaxNameWords == 5

NAME_KEYWORDS == <<"email", "phone", "linkedin", "github", "cgpa", "education",
                   "skills", "project", "experience">>

\* [|*-] and the non-ASCII bullets and dashes
RE_NAME_DECOR == Set({"|", "*", "-"})
\* \s{2,}
RE_SPACES2 == Rep(Set(SPACE), 2, -1, TRUE)
\* the characters of strip(" .,|-()[]{}"), and the non-ASCII dashes
NAME_STRIP == {" ", ".", ",", "|", "-", "(", ")", "[", "]", "{", "}"}
\* \s{4,}|\t+
RE_COLUMNS == Alt(<<Rep(Set(SPACE), 4, -1, TRUE), Plus(Lit("\t"))>>)
\* ^[A-Z][A-Za-z'.-]+\s+[A-Z][A-Za-z'.-]+
RE_TWO_CAPITALIZED ==
    Cat(<<Bol, Set(UPPER), Plus(Set(LETTER \cup {"'", ".", "-"})), Plus(Set(SPACE)),
          Set(UPPER), Plus(Set(LETTER \cup {"'", ".", "-"}))>>)
\* ([a-zA-Z]+)[\._]?([a-zA-Z]+)?@
RE_EMAIL_NAME ==
    Cat(<<Grp(1, Plus(Set(LETTER))), Opt(Set({".", "_"})), Opt(Grp(2, Plus(Set(LETTER)))),
          Lit("@")>>)

NoName == <<>>

\* [x for x in l if x.strip()]
NonBlank(l) == SelectSeq(l, LAMBDA x : strip(x) # "")

\* [c.strip() for c in l]
StripEach(l) == [k \in 1..Len(l) |-> strip(l[k])]

\* [c.strip() for c in l if c.strip()]
StrippedNonBlank(l) == StripEach(NonBlank(l))

\* the lines examined, were the blank lines dropped before the cut
NameLinesNonBlankFirst(t) == Take(NonBlank(splitlines(t)), NameWindow)

\* the lines extract_name examines
NameLines(t) == NonBlank(Take(splitlines(t), NameWindow))

\* the line as cleaned at the top of the loop body
NameLineCleaned(line) ==
    StripSet(Sub(RE_SPACES2, " ", Sub(RE_NAME_DECOR, " ", line, NoFlags), NoFlags), NAME_STRIP)

HasNameKeyword(line) ==
    \E k \in 1..Len(NAME_KEYWORDS) : Contains(lower(line), NAME_KEYWORDS[k])

\* the body of the inner loop for one segment, of the words `words`: what it
\* returns, or NoName when it goes on to the next segment
NameOfWords(name, words, seen) ==
    IF Len(words) < MinNameWords \/ Len(words) > MaxNameWords THEN NoName
    ELSE IF lower(name) \in seen THEN NoName
    ELSE IF MatchAt(RE_TWO_CAPITALIZED, name, 1, NoFlags).ok THEN <<name, Conf(99, 100)>>
    ELSE IF \A i \in 1..Len(words) : Ch(words[i], 1) \in UPPER
         THEN <<name, Conf(97, 100)>>
         ELSE NoName

NameOfSegment(name, seen) == NameOfWords(name, split(name), seen)

\* the inner loop from the j-th segment on, r being what its body gives on
\* that segment
RECURSIVE NameOfSegments(_, _, _)
NameOfSegmentsAfter(cands, j, seen, r) ==
    IF r # NoName THEN r ELSE NameOfSegments(cands, j + 1, seen)

NameOfSegments(cands, j, seen) ==
    IF j > Len(cands) THEN NoName
    ELSE NameOfSegmentsAfter(cands, j, seen, NameOfSegment(cands[j], seen))

\* the body of the outer loop on the line as cleaned
NameOfCleanedLine(line, seen) ==
    IF line = "" \/ Len(line) < MinNameLineLen THEN NoName
    ELSE IF HasNameKeyword(line) THEN NoName
    ELSE NameOfSegments(StrippedNonBlank(ReSplit(RE_COLUMNS, line, NoFlags)), 1, seen)

\* the body of the outer loop for one line
NameOfLine(rawLine, seen) == NameOfCleanedLine(NameLineCleaned(rawLine), seen)

\* the outer loop from the i-th line on, r being what its body gives on that
\* line (seen is added to only on the way out of the function, so it is empty
\* whenever it is read)
RECURSIVE NameOfLines(_, _, _)
NameOfLinesAfter(lines, i, seen, r) ==
    IF r # NoName THEN r ELSE NameOfLines(lines, i + 1, seen)

NameOfLines(lines, i, seen) ==
    IF i > Len(lines) THEN NoName
    ELSE NameOfLinesAfter(lines, i, seen, NameOfLine(lines[i], seen))

\* n of the f-string: group 1 and group 2 (or nothing) title-cased
NameOfGroups(g1, g2) == strip(title(g1) \o " " \o (IF g2 # NONE THEN title(g2) ELSE ""))

\* the fallback on the match of the e-mail pattern, and then on "Unknown"
NameOfEmail(t, email) ==
    IF email.ok
    THEN <<NameOfGroups(Group(t, email, 1), Group(t, email, 2)), Conf(85, 100)>>
    ELSE <<"Unknown", Conf(1, 10)>>

NameFromEmail(t) == NameOfEmail(t, Search(RE_EMAIL_NAME, t, NoFlags))

\* what the function returns, r being what the loop gave
NameOrFallback(t, r) == IF r # NoName THEN r ELSE NameFromEmail(t)

extract_name(t) == NameOrFallback(t, NameOfLines(NameLines(t), 1, {}))

-----------------------------------------------------------------------------
(* Contact extraction *)

\* (\+91[- ]?)?[6-9]\d{9}
RE_PHONE ==
    Cat(<<Opt(Grp(1, Cat(<<Str("+91"), Opt(Set({"-", " "}))>>))),
          Set({"6", "7", "8", "9"}), Rep(Set(DIGIT), 9, 9, TRUE)>>)
\* [A-Za-z0-9._%+-]+@[A-Za-z0-9.-]+\.[A-Za-z]{2,}
RE_EMAIL ==
    Cat(<<Plus(Set(LETTER \cup DIGIT \cup {".", "_", "%", "+", "-"})), Lit("@"),
          Plus(Set(LETTER \cup DIGIT \cup {".", "-"})), Lit("."), Rep(Set(LETTER), 2, -1, TRUE)>>)
\* (linkedin\.com/in/[A-Za-z0-9\-_]+)
RE_LINKEDIN == Grp(1, Cat(<<Str("linkedin.com/in/"), Plus(Set(LETTER \cup DIGIT \cup {"-", "_"}))>>))
\* (github\.com/[A-Za-z0-9\-_]+)
RE_GITHUB == Grp(1, Cat(<<Str("github.com/"), Plus(Set(LETTER \cup DIGIT \cup {"-", "_"}))>>))

IgnoreCase == Flags(TRUE, FALSE, FALSE)

PHONE_WEIGHT == 35
EMAIL_WEIGHT == 35
LINKEDIN_WEIGHT == 20
GITHUB_WEIGHT == 20
CONTACT_CAP == 99

\* the running score after the four if statements
ContactScoreSum(phone, email, linkedin, github) ==
    (IF phone THEN PHONE_WEIGHT ELSE 0) + (IF email THEN EMAIL_WEIGHT ELSE 0)
      + (IF linkedin THEN LINKEDIN_WEIGHT ELSE 0) + (IF github THEN GITHUB_WEIGHT ELSE 0)

\* the score returned as it is, without min(score, 0.99)
ContactScoreNoCap(phone, email, linkedin, github) ==
    ContactScoreSum(phone, email, linkedin, github)

\* min(score, 0.99), in hundredths
ContactScore(phone, email, linkedin, github) ==
    IF ContactScoreSum(phone, email, linkedin, github) < CONTACT_CAP
    THEN ContactScoreSum(phone, email, linkedin, github) ELSE CONTACT_CAP

\* out and the score, for the matches of the four patterns; the dictionary
\* out is a function on the keys that were found
ContactsOf(t, phone, email, linkedin, github) ==
    LET keys == (IF phone.ok THEN {"phone"} ELSE {}) \cup (IF email.ok THEN {"email"} ELSE {})
                  \cup (IF linkedin.ok THEN {"linkedin"} ELSE {})
                  \cup (IF github.ok THEN {"github"} ELSE {})
    IN  <<[k \in keys |->
             CASE k = "phone" -> Group0(t, phone)
               [] k = "email" -> Group0(t, email)
               [] k = "linkedin" -> Group(t, linkedin, 1)
               [] k = "github" -> Group(t, github, 1)],
          Conf(ContactScore(phone.ok, email.ok, linkedin.ok, github.ok), 100)>>

extract_contacts(t) ==
    ContactsOf(t, Search(RE_PHONE, t, NoFlags), Search(RE_EMAIL, t, NoFlags),
                  Search(RE_LINKEDIN, t, IgnoreCase), Search(RE_GITHUB, t, IgnoreCase))

-----------------------------------------------------------------------------
(* Skills *)

DEFAULT_SKILLS == <<"python", "java", "react", "django", "flask", "aws", "docker">>

\* the ASCII characters in code point order (but the double quote and the backquote), for sorted()
AsciiOrder == "\t\n\f\r !#$%&'()*+,-./0123456789:;<=>?@ABCDEFGHIJKLMNOPQRSTUVWXYZ[\\]^_abcdefghijklmnopqrstuvwxyz{|}~"
Ord(c) == AlphaIndex(AsciiOrder, c)

RECURSIVE StrLess(_, _)
StrLess(a, b) ==
    IF b = "" THEN FALSE
    ELSE IF a = "" THEN TRUE
    ELSE IF Ch(a, 1) = Ch(b, 1) THEN StrLess(Tail(a), Tail(b))
    ELSE Ord(Ch(a, 1)) < Ord(Ch(b, 1))

RECURSIVE Sorted(_)
Sorted(S) ==
    IF S = {} THEN <<>>
    ELSE LET least == CHOOSE x \in S : \A y \in S \ {x} : StrLess(x, y)
         IN  <<least>> \o Sorted(S \ {least})

\* (?<![a-z0-9])skill(?![a-z0-9])
RE_SKILL(skill) ==
    Cat(<<NotBehind(LOWER \cup DIGIT), Str(lower(skill)), NotAhead(LOWER \cup DIGIT)>>)

\* the set found, low being text.lower()
SkillsFoundIn(low, skills_list) ==
    {title(skills_list[i]) : i \in {j \in 1..Len(skills_list) :
                                     Search(RE_SKILL(skills_list[j]), low, NoFlags).ok}}

SkillsFound(t, skills_list) == SkillsFoundIn(lower(t), skills_list)

SKILLS_GROUP == 5
Max(a, b) == IF a >= b THEN a ELSE b

\* 0.1 if not found else min(0.3 + 0.7 * len(found) / max(1, len(skills_list)//5), 0.98)
SkillsScore(nFound, nVocab) ==
    IF nFound = 0 THEN Conf(1, 10)
    ELSE LET m == Max(1, nVocab \div SKILLS_GROUP)
         IN  ConfMin(Conf(3 * m + 7 * nFound, 10 * m), Conf(98, 100))

\* return sorted(found), score
SkillsReturn(found, skills_list) ==
    <<Sorted(found), SkillsScore(Cardinality(found), Len(skills_list))>>

extract_skills(t, skills_list) == SkillsReturn(SkillsFound(t, skills_list), skills_list)

-----------------------------------------------------------------------------
(* CGPA *)

\* (\d+\.\d{1,2})
RE_FLOAT == Grp(1, Cat(<<Plus(Set(DIGIT)), Lit("."), Rep(Set(DIGIT), 1, 2, TRUE)>>))

CGPA_PATTERNS == <<
    Cat(<<Str("CGPA"), Rep(Dot, 0, -1, FALSE), RE_FLOAT>>),               \* CGPA.*?(\d+\.\d{1,2})
    Cat(<<Str("GPA"), Rep(Dot, 0, -1, FALSE), RE_FLOAT>>),                \* GPA.*?(\d+\.\d{1,2})
    Cat(<<RE_FLOAT, Star(Set(SPACE)), Lit("/"), Star(Set(SPACE)), Str("10")>>),  \* (..)\s*/\s*10
    Cat(<<RE_FLOAT, Star(Set(SPACE)), Str("out"), Star(Set(SPACE)), Str("of"),
          Star(Set(SPACE)), Str("10")>> ) >>                              \* (..)\s*out\s*of\s*10

\* the loop over patterns[i..], m being the match of patterns[i]
RECURSIVE CgpaLoop(_, _, _)
CgpaLoopAfter(patterns, i, t, m) ==
    IF m.ok THEN <<Group(t, m, 1), Conf(99, 100)>> ELSE CgpaLoop(patterns, i + 1, t)

CgpaLoop(patterns, i, t) ==
    IF i > Len(patterns) THEN <<"", Conf(0, 1)>>
    ELSE CgpaLoopAfter(patterns, i, t, Search(patterns[i], t, IgnoreCase))

\* the match that starts first in the text, whatever its pattern
CgpaEarliest(patterns, t) ==
    LET ms == [i \in 1..Len(patterns) |-> Search(patterns[i], t, IgnoreCase)]
        hits == {i \in 1..Len(patterns) : ms[i].ok}
    IN  IF hits = {} THEN <<"", Conf(0, 1)>>
        ELSE LET best == CHOOSE i \in hits : \A j \in hits :
                            ms[i].start < ms[j].start \/ (ms[i].start = ms[j].start /\ i <= j)
             IN  <<Group(t, ms[best], 1), Conf(99, 100)>>

extract_cgpa_earliest(t) == CgpaEarliest(CGPA_PATTERNS, t)

extract_cgpa(t) == CgpaLoop(CGPA_PATTERNS, 1, t)

-----------------------------------------------------------------------------
(* Project extraction *)

DotAllIgnoreCase == Flags(TRUE, TRUE, FALSE)
DotAll == Flags(FALSE, TRUE, FALSE)
MultiLine == Flags(FALSE, FALSE, TRUE)

\* (?si)(projects?|project details)\s*[:\-]?\s*(.+?)(\n[A-Z][A-Za-z ]{3,}|$)
RE_PROJECT_SECTION ==
    Cat(<<Grp(1, Alt(<<Cat(<<Str("project"), Opt(Lit("s"))>>), Str("project details")>>)),
          Star(Set(SPACE)), Opt(Set({":", "-"})), Star(Set(SPACE)),
          Grp(2, Rep(Dot, 1, -1, FALSE)),
          Grp(3, Alt(<<Cat(<<Lit("\n"), Set(UPPER), Rep(Set(LETTER \cup {" "}), 3, -1, TRUE)>>),
                       Eol>>))>>)
\* ^[A-Za-z].{4,}
RE_TITLE_LINE == Cat(<<Bol, Set(LETTER), Rep(Dot, 4, -1, TRUE)>>)
\* (?m)^\s*(\d+\.|\(\d+\))\s*(.+)
RE_NUMBERED ==
    Cat(<<Bol, Star(Set(SPACE)),
          Grp(1, Alt(<<Cat(<<Plus(Set(DIGIT)), Lit(".")>>),
                       Cat(<<Lit("("), Plus(Set(DIGIT)), Lit(")")>>)>>)),
          Star(Set(SPACE)), Grp(2, Plus(Dot))>>)
\* {re.escape(title)}\s*\n(.+?)(\n\d+\.|\n[A-Z ]{3,}|$)
RE_NUMBERED_BLOCK(ttl) ==
    Cat(<<Str(ttl), Star(Set(SPACE)), Lit("\n"), Grp(1, Rep(Dot, 1, -1, FALSE)),
          Grp(2, Alt(<<Cat(<<Lit("\n"), Plus(Set(DIGIT)), Lit(".")>>),
                       Cat(<<Lit("\n"), Rep(Set(UPPER \cup {" "}), 3, -1, TRUE)>>),
                       Eol>>))>>)
\* \n{1,2}
RE_NEWLINES12 == Rep(Lit("\n"), 1, 2, TRUE)
\* (?m)^\s*[-*]\s*(.+), and the non-ASCII bullet
RE_BULLET == Cat(<<Bol, Star(Set(SPACE)), Set({"-", "*"}), Star(Set(SPACE)), Grp(1, Plus(Dot))>>)

\* the prefixes of startswith(("-", "*", "1.", "2.")), and the non-ASCII bullet
NOT_TITLE_PREFIXES == <<"-", "*", "1.", "2.">>
BULLET_PREFIXES == <<"-", "*">>
\* the characters of lstrip("-* "), and the non-ASCII bullet
BULLET_STRIP == {"-", "*", " "}
\* the characters of strip(" .-_")
PROJECT_STRIP == {" ", ".", "-", "_"}

MinBlockLineLen == 2
MinDescWords == 3
MinBulletLen == 5
MinProjectLen == 5
MaxProjects == 10

StartsWithAny(line, prefixes) == \E k \in 1..Len(prefixes) : startswith(line, prefixes[k])

\* [l.strip() for l in lines if len(l.strip()) > 2]
BlockLines(lines) == StripEach(SelectSeq(lines, LAMBDA l : Len(strip(l)) > MinBlockLineLen))

\* the loop over the lines of the projects block: the list `combined`
RECURSIVE GroupLines(_, _, _, _)
GroupLines(lines, i, combined, current_title) ==
    IF i > Len(lines) THEN combined
    ELSE LET line == lines[i]
         IN  IF isupper(line) THEN GroupLines(lines, i + 1, combined, current_title)
             ELSE IF MatchAt(RE_TITLE_LINE, line, 1, NoFlags).ok
                       /\ ~StartsWithAny(line, NOT_TITLE_PREFIXES)
             THEN GroupLines(lines, i + 1, Append(combined, <<line>>), line)
             ELSE IF current_title # ""
                       /\ (StartsWithAny(line, BULLET_PREFIXES) \/ Len(split(line)) > MinDescWords)
             THEN GroupLines(lines, i + 1,
                             [combined EXCEPT ![Len(combined)] = Append(@, line)], current_title)
             ELSE GroupLines(lines, i + 1, combined, current_title)

\* [d.lstrip("-* ") for d in ds]
BulletsStripped(ds) == [k \in 1..Len(ds) |-> LStripSet(ds[k], BULLET_STRIP)]

\* the entry of a title and its description
TitleAndDesc(ttl, desc) == IF desc # "" THEN ttl \o " " \o EN_DASH \o " " \o desc ELSE ttl

\* what one group of `combined` adds to projects
GroupEntry(c) == TitleAndDesc(c[1], join("; ", BulletsStripped(Tail(c))))

\* the loop over combined
GroupEntries(combined) == [k \in 1..Len(combined) |-> GroupEntry(combined[k])]

\* the if statement on the match sec of the section pattern
SectionEntries(t, sec) ==
    IF ~sec.ok THEN <<>>
    ELSE GroupEntries(GroupLines(BlockLines(SplitOn(Group(t, sec, 2), "\n")), 1, <<>>, ""))

\* the candidates of the section-block strategy
SectionCandidates(t) == SectionEntries(t, Search(RE_PROJECT_SECTION, t, DotAllIgnoreCase))

\* the if statement on the match desc of the pattern built from the title
NumberedEntryOf(t, ttl, desc) ==
    IF desc.ok
    THEN ttl \o " " \o EN_DASH \o " " \o Sub(RE_NEWLINES12, " ", strip(Group(t, desc, 1)), NoFlags)
    ELSE ttl

\* the body of the loop over numbered, on the stripped title
NumberedEntryTitled(t, ttl) == NumberedEntryOf(t, ttl, Search(RE_NUMBERED_BLOCK(ttl), t, DotAll))

\* what one numbered line adds to projects
NumberedEntry(t, m) == NumberedEntryTitled(t, strip(Group(t, m, 2)))

\* the loop over numbered
NumberedEntries(t, numbered) == [k \in 1..Len(numbered) |-> NumberedEntry(t, numbered[k])]

\* the candidates of the numbered-list strategy
NumberedCandidates(t) == NumberedEntries(t, FindIter(RE_NUMBERED, t, MultiLine))

\* the loop over the bulleted lines
RECURSIVE BulletEntries(_, _, _)
BulletEntries(t, bullets, k) ==
    IF k > Len(bullets) THEN <<>>
    ELSE LET b == Group(t, bullets[k], 1)
         IN  (IF Len(b) > MinBulletLen THEN <<strip(b)>> ELSE <<>>)
               \o BulletEntries(t, bullets, k + 1)

\* the candidates of the bare-bullet strategy
BulletCandidates(t) == BulletEntries(t, FindIter(RE_BULLET, t, MultiLine), 1)

\* the list `projects` before the final loop
ProjectCandidates(t) == SectionCandidates(t) \o NumberedCandidates(t) \o BulletCandidates(t)

\* the final loop without its membership test
RECURSIVE MergeLoopKeepAll(_, _, _)
MergeLoopKeepAll(projects, i, final) ==
    IF i > Len(projects) THEN final
    ELSE LET p == StripSet(projects[i], PROJECT_STRIP)
         IN  IF Len(p) > MinProjectLen
             THEN MergeLoopKeepAll(projects, i + 1, Append(final, p))
             ELSE MergeLoopKeepAll(projects, i + 1, final)

\* the final loop over projects[i..]
RECURSIVE MergeLoop(_, _, _)
MergeLoop(projects, i, final) ==
    IF i > Len(projects) THEN final
    ELSE LET p == StripSet(projects[i], PROJECT_STRIP)
         IN  IF Len(p) > MinProjectLen /\ ~InList(p, final)
             THEN MergeLoop(projects, i + 1, Append(final, p))
             ELSE MergeLoop(projects, i + 1, final)

MergeProjects(projects) == MergeLoop(projects, 1, <<>>)

\* return final[:10], (0.9 if final else 0.0)
ProjectsOf(final) ==
    <<Take(final, MaxProjects), IF final # <<>> THEN Conf(9, 10) ELSE Conf(0, 1)>>

\* the final loop and the return statement, on the list `projects`
ProjectsReturn(projects) == ProjectsOf(MergeProjects(projects))

extract_projects(t) == ProjectsReturn(ProjectCandidates(t))

-----------------------------------------------------------------------------
(* Experience, and the confidence map *)

extract_experience(t) == <<<<>>, Conf(0, 1)>>

\* int(round(v * 100)): round() takes a tie to the even neighbour
Percent(c) ==
    LET n == 100 * c[1]
        q == n \div c[2]
        twice == 2 * (n % c[2])
    IN  IF twice > c[2] \/ (twice = c[2] /\ q % 2 = 1) THEN q + 1 ELSE q

section_confidence_map(d) == [k \in DOMAIN d |-> Percent(d[k])]

EDUCATION_CONF == Conf(1, 2)

-----------------------------------------------------------------------------
(* The skills file.  It is absent, unreadable, not JSON, or holds a JSON   *)
(* value; a JSON value is a list (of strings, or of numbers), an object    *)
(* (its keys), a string, a number or null.                                 *)

JsonList(of, items) == [type |-> "list", of |-> of, items |-> items]
JsonObject(keys) == [type |-> "object", of |-> "str", items |-> keys]
JsonString(str) == [type |-> "string", of |-> "str", items |-> [k \in 1..Len(str) |-> Ch(str, k)]]
JsonNumber == [type |-> "number", of |-> "none", items |-> <<>>]
JsonNull == [type |-> "null", of |-> "none", items |-> <<>>]

NoFile(kind) == [kind |-> kind, value |-> JsonNull]
JsonFile(value) == [kind |-> "json", value |-> value]

\* try: json.loads(read_text()) except: the default list
load_skills_dict(skills_file) ==
    IF skills_file.kind = "json" THEN skills_file.value ELSE JsonList("str", DEFAULT_SKILLS)

Returned(v) == [ok |-> TRUE, value |-> v, error |-> ""]
Raised(e) == [ok |-> FALSE, value |-> <<>>, error |-> e]

\* extract_skills on whatever load_skills_dict returned: the for loop raises
\* on a value that cannot be iterated, skill.lower() on an item that is no
\* string
ExtractSkillsOf(t, skills_value) ==
    IF skills_value.type = "number" THEN Raised("'int' object is not iterable")
    ELSE IF skills_value.type = "null" THEN Raised("'NoneType' object is not iterable")
    ELSE IF skills_value.of # "str" /\ skills_value.items # <<>>
         THEN Raised("'int' object has no attribute 'lower'")
         ELSE Returned(extract_skills(t, skills_value.items))

-----------------------------------------------------------------------------
(* A document, and parse_file *)

\* a directory entry: its name, what load_text reads from it, and the
\* exception load_text raises on it ("" when it raises none)
File(name, raw, fault) == [name |-> name, raw |-> raw, fault |-> fault]

\* Path.suffix: from the last dot of the name, if it is not the first character
Suffix(name) ==
    LET dots == {k \in 2..Len(name) : Ch(name, k) = "."}
    IN  IF dots = {} \/ MaxOf(dots) = Len(name) THEN "" ELSE SubSeq(name, MaxOf(dots), Len(name))

load_text(file) == IF file.fault # "" THEN Raised(file.fault) ELSE Returned(file.raw)

\* list(dict.fromkeys(l)): l without its repetitions, in order
RECURSIVE DictFromKeys(_)
DictFromKeys(l) ==
    IF l = <<>> THEN <<>>
    ELSE LET front == DictFromKeys(SubSeq(l, 1, Len(l) - 1))
         IN  IF InList(l[Len(l)], front) THEN front ELSE Append(front, l[Len(l)])

\* [remove_duplicate_words(p) for p in projects]
DedupEach(projects) == [k \in 1..Len(projects) |-> remove_duplicate_words(projects[k])]

\* the dictionary parse_file returns, for what the extractors returned
RecordWith(file, t, name, contacts, skills, cgpa, projects, experience) ==
    [file |-> file.name,
     name |-> remove_duplicate_words(name[1]),
     contacts |-> contacts[1],
     skills |-> DictFromKeys(skills[1]),
     cgpa |-> cgpa[1],
     projects |-> DedupEach(projects[1]),
     projects_text |-> join(" ", DedupEach(projects[1])),
     experience |-> experience[1],
     confidence |-> section_confidence_map(
         [name |-> name[2], contact |-> contacts[2], skills |-> skills[2],
          education |-> EDUCATION_CONF, cgpa |-> cgpa[2],
          projects |-> projects[2], experience |-> experience[2]]),
     language |-> IF is_kannada(t) THEN "Kannada" ELSE "English",
     raw_text |-> t]

\* the record parse_file builds from the cleaned text and the skills
RecordOf(file, t, skills) ==
    RecordWith(file, t, extract_name(t), extract_contacts(t), skills, extract_cgpa(t),
               extract_projects(t), extract_experience(t))

\* parse_file from the call of extract_skills on: it raises, or the record
\* is returned
ParseWithSkills(file, t, skills) ==
    IF ~skills.ok THEN skills ELSE Returned(RecordOf(file, t, skills.value))

\* parse_file on the cleaned text
ParseCleaned(file, t, skills_file) ==
    ParseWithSkills(file, t, ExtractSkillsOf(t, load_skills_dict(skills_file)))

\* parse_file from the call of load_text on: it raises, or the text is cleaned
ParseLoaded(file, raw, skills_file) ==
    IF ~raw.ok THEN raw ELSE ParseCleaned(file, clean_text(raw.value), skills_file)

parse_file(file, skills_file) == ParseLoaded(file, load_text(file), skills_file)

-----------------------------------------------------------------------------
(* parse_folder *)

ELIGIBLE_SUFFIXES == {".pdf", ".docx", ".txt"}

Eligible(file) == lower(Suffix(file.name)) \in ELIGIBLE_SUFFIXES

\* the except clause: the error record
ErrorRecord(file, e) == [file |-> file.name, error |-> e]

\* the failure swallowed without a record
AfterTryNoRecord(recs, file, outcome) ==
    IF outcome.ok THEN Append(recs, outcome.value) ELSE recs

\* what the body of the try statement leaves in records
AfterTry(recs, file, outcome) ==
    IF outcome.ok THEN Append(recs, outcome.value)
    ELSE Append(recs, ErrorRecord(file, outcome.error))

-----------------------------------------------------------------------------
(* Inputs: all the strings over an alphabet up to a length *)

RECURSIVE StringsUpTo(_, _)
StringsUpTo(alphabet, n) ==
    IF n = 0 THEN {""}
    ELSE LET shorter == StringsUpTo(alphabet, n - 1)
         IN  shorter \cup {p \o c : p \in shorter, c \in alphabet}

-----------------------------------------------------------------------------
(* remove_duplicate_words on every short string of words *)

MaxDedupLen == 7
DedupAlphabet == {"a", "A", "b", " "}
DedupInputs == StringsUpTo(DedupAlphabet, MaxDedupLen)

DedupInit ==
    /\ pc = "start"
    /\ text \in DedupInputs
    /\ result = ""
    /\ vocab = <<>> /\ folder = <<>> /\ idx = 0 /\ records = <<>>

DedupCall ==
    /\ pc = "start"
    /\ result' = remove_duplicate_words(text)
    /\ pc' = "done"
    /\ UNCHANGED <<text, vocab, folder, idx, records>>

DedupNext == DedupCall

SpecDedup == DedupInit /\ [][DedupNext]_vars

\* the positions of the input words that are the first of their kind
FirstOccurrences(words) ==
    {i \in 1..Len(words) : \A j \in 1..(i - 1) : lower(words[j]) # lower(words[i])}

\* C4: the output of remove_duplicate_words has no two words equal ignoring
\* case, and its words are the first occurrences of the input's words, each
\* once, as first spelled and in the order of the input.
C4_DedupCorrect ==
    pc = "done" =>
        LET words == split(text)
            kept == split(result)
            first == FirstOccurrences(words)
        IN  /\ \A i, j \in 1..Len(kept) : i # j => lower(kept[i]) # lower(kept[j])
            /\ Len(kept) = Cardinality(first)
            /\ \A i \in first : kept[Cardinality({j \in first : j <= i})] = words[i]

\* a repeated word in another case, after a word that is kept, was dropped
C4_Witness ==
    /\ pc = "done"
    /\ Len(split(text)) >= 3
    /\ Len(split(result)) = 2
    /\ \E i \in 1..Len(split(text)) : ~InList(split(text)[i], split(result))

-----------------------------------------------------------------------------
(* clean_text, and clean_text again on what it returned *)

MaxCleanLen == 5
CleanAlphabet == {NUL, " ", "\t", "\r", "\n", "a"}
CleanInputs == StringsUpTo(CleanAlphabet, MaxCleanLen)

CleanInit ==
    /\ pc = "start"
    /\ text \in CleanInputs
    /\ result = <<>>
    /\ vocab = <<>> /\ folder = <<>> /\ idx = 0 /\ records = <<>>

CleanOnce ==
    /\ pc = "start"
    /\ result' = <<clean_text(text)>>
    /\ pc' = "cleaned"
    /\ UNCHANGED <<text, vocab, folder, idx, records>>

CleanAgain ==
    /\ pc = "cleaned"
    /\ result' = Append(result, clean_text(result[1]))
    /\ pc' = "done"
    /\ UNCHANGED <<text, vocab, folder, idx, records>>

CleanNext == CleanOnce \/ CleanAgain

SpecClean == CleanInit /\ [][CleanNext]_vars

\* C5: clean_text applied to its own output returns it unchanged.
C5_CleanIdempotent == pc = "done" => result[2] = result[1]

\* a text mixing a carriage return, newlines and a null character, which the
\* first pass changed
C5_Witness ==
    /\ pc = "done"
    /\ Contains(text, "\r") /\ Contains(text, "\n") /\ Contains(text, NUL)
    /\ result[1] # text
    /\ Contains(result[1], "\n\n")

-----------------------------------------------------------------------------
(* extract_cgpa on texts put together from a few fragments *)

MaxCgpaParts == 3
CGPA_PARTS == {"CGPA: 8.5", "gpa 7.25", "7.2/10", "6.1 out of 10", "cgpa", "9.", "\n"}

\* the texts made of up to n of the parts, a space between two parts
RECURSIVE PartTexts(_, _)
PartTexts(parts, n) ==
    IF n = 0 THEN {""}
    ELSE LET shorter == PartTexts(parts, n - 1)
         IN  shorter \cup {IF t = "" THEN q ELSE t \o " " \o q : t \in shorter, q \in parts}

CgpaInit ==
    /\ pc = "start"
    /\ text \in PartTexts(CGPA_PARTS, MaxCgpaParts)
    /\ result = <<>>
    /\ vocab = <<>> /\ folder = <<>> /\ idx = 0 /\ records = <<>>

CgpaCall ==
    /\ pc = "start"
    /\ result' = extract_cgpa(text)
    /\ pc' = "done"
    /\ UNCHANGED <<text, vocab, folder, idx, records>>

CgpaNext == CgpaCall

SpecCgpa == CgpaInit /\ [][CgpaNext]_vars

\* the patterns that match somewhere in the text
CgpaHits(t) == {i \in 1..Len(CGPA_PATTERNS) : Search(CGPA_PATTERNS[i], t, IgnoreCase).ok}

\* C8: the result of extract_cgpa is the number captured by the first
\* pattern, in the order CGPA, GPA, x/10, x out of 10, that matches anywhere
\* in the text, with confidence 0.99, wherever the later patterns match; and
\* the empty string with confidence 0.0 when none matches.
C8_CgpaPriority ==
    pc = "done" =>
        LET hits == CgpaHits(text)
        IN  /\ hits = {} => result = <<"", Conf(0, 1)>>
            /\ hits # {} =>
                 result = <<Group(text, Search(CGPA_PATTERNS[MinOf(hits)], text, IgnoreCase), 1),
                            Conf(99, 100)>>
            /\ text = "7.2/10 CGPA: 8.5" => result[1] = "8.5"

\* the x/10 pattern matches before the CGPA pattern does, and the CGPA
\* number was returned
C8_Witness ==
    /\ pc = "done"
    /\ {1, 3} \subseteq CgpaHits(text)
    /\ Search(CGPA_PATTERNS[3], text, IgnoreCase).start
         < Search(CGPA_PATTERNS[1], text, IgnoreCase).start
    /\ result = <<"8.5", Conf(99, 100)>>

-----------------------------------------------------------------------------
(* extract_name on texts with a name behind blank and short lines, and on  *)
(* texts of a few lines with names and e-mail addresses                    *)

MaxLead == 31
MaxNameLines == 2
NAME_LINE == "John Smith"
FILLER_LINE == "x"
NAME_PARTS == {"Ann Lee", "ann lee", "jane.doe@x.com", "bob99@x.com", "foo@", "Email: a@b.co"}

\* n times the string s
RECURSIVE Times(_, _)
Times(s, n) == IF n = 0 THEN "" ELSE s \o Times(s, n - 1)

\* blanks empty lines, then fillers short lines (each followed by an empty
\* line if spaced), then the name
LeadText(blanks, fillers, spaced) ==
    Times("\n", blanks)
      \o Times(FILLER_LINE \o (IF spaced THEN "\n\n" ELSE "\n"), fillers)
      \o NAME_LINE

LeadTexts ==
    {LeadText(b, f, sp) : <<b, f, sp>> \in
        {x \in (0..MaxLead) \X (0..MaxLead) \X BOOLEAN :
            x[1] + (IF x[3] THEN 2 * x[2] ELSE x[2]) <= MaxLead /\ (x[3] => x[2] > 0)}}

\* the texts of up to n of the parts, one to a line
RECURSIVE LineTexts(_, _)
LineTexts(parts, n) ==
    IF n = 0 THEN {""}
    ELSE LET shorter == LineTexts(parts, n - 1)
         IN  shorter \cup {IF t = "" THEN q ELSE t \o "\n" \o q : t \in shorter, q \in parts}

NameInit ==
    /\ pc = "start"
    /\ text \in LeadTexts \cup LineTexts(NAME_PARTS, MaxNameLines)
    /\ result = <<>>
    /\ vocab = <<>> /\ folder = <<>> /\ idx = 0 /\ records = <<>>

\* the call, with the list `lines` it builds first
NameCall ==
    /\ pc = "start"
    /\ result' = [lines |-> NameLines(text), ret |-> extract_name(text)]
    /\ pc' = "done"
    /\ UNCHANGED <<text, vocab, folder, idx, records>>

NameNext == NameCall

SpecName == NameInit /\ [][NameNext]_vars

\* the line yields a name: the loop body returns on it
Qualifies(line) == NameOfLine(line, {}) # NoName

FromALine(ret) == ret[2] \in {Conf(99, 100), Conf(97, 100)}

\* the first two pieces of the local part, cut at "." and "_", title-cased
RECURSIVE CutLocal(_, _)
CutLocal(local, cur) ==
    IF local = "" THEN <<cur>>
    ELSE IF Ch(local, 1) \in {".", "_"} THEN <<cur>> \o CutLocal(Tail(local), "")
         ELSE CutLocal(Tail(local), cur \o Ch(local, 1))

NameOfLocalPart(local) ==
    LET pieces == SelectSeq(CutLocal(local, ""), LAMBDA x : x # "")
    IN  join(" ", [k \in 1..(IF Len(pieces) < 2 THEN Len(pieces) ELSE 2) |-> title(pieces[k])])

\* the local part of the first e-mail address of the text
FirstLocalPart(t) ==
    LET m == Search(RE_EMAIL, t, NoFlags)
        at == MinOf({k \in m.start..(m.end - 1) : Ch(t, k) = "@"})
    IN  SubSeq(t, m.start, at - 1)

\* C7: the name is that of the first line of the window that yields one; with
\* no such line it is made of the local part of the first e-mail address of
\* the text, with confidence 0.85; and with no address either it is
\* "Unknown", with confidence 0.1.
C7_FallbackChain ==
    pc = "done" =>
        LET yielding == {k \in 1..Len(result.lines) : Qualifies(result.lines[k])}
        IN  /\ yielding # {} =>
                 /\ result.ret = NameOfLine(result.lines[MinOf(yielding)], {})
                 /\ FromALine(result.ret)
            /\ (yielding = {} /\ Search(RE_EMAIL, text, NoFlags).ok) =>
                 result.ret = <<NameOfLocalPart(FirstLocalPart(text)), Conf(85, 100)>>
            /\ (yielding = {} /\ ~Search(RE_EMAIL, text, NoFlags).ok) =>
                 result.ret = <<"Unknown", Conf(1, 10)>>

\* rank of position i in the set of positions S
Rank(S, i) == Cardinality({j \in S : j <= i})

\* the lines of the text that are among its first NameWindow lines and are
\* not blank
WindowPositions(t) ==
    {i \in 1..Len(splitlines(t)) : i <= NameWindow /\ strip(splitlines(t)[i]) # ""}

\* C10 as amended: the window of extract_name is made of the lines that are
\* not blank among the first 30 lines of the text, blank ones counted: the
\* first of them that yields a name gives the result, and a name on a later
\* line is not returned.
C10_WindowIsFirstLines ==
    pc = "done" =>
        LET all == splitlines(text)
            window == WindowPositions(text)
            yielding == {i \in window : Qualifies(all[i])}
        IN  /\ Len(result.lines) = Cardinality(window)
            /\ \A i \in window : result.lines[Rank(window, i)] = all[i]
            /\ yielding # {} => result.ret = NameOfLine(all[MinOf(yielding)], {})
            /\ yielding = {} => ~FromALine(result.ret)

\* a name on line 31, behind short lines and blank lines, was not returned
C10_Witness ==
    /\ pc = "done"
    /\ Len(splitlines(text)) = NameWindow + 1
    /\ Qualifies(splitlines(text)[NameWindow + 1])
    /\ Len(result.lines) \in 1..(NameWindow - 1)
    /\ result.ret = <<"Unknown", Conf(1, 10)>>

\* C10 as claimed: a name on one of the first 30 lines that are not blank is
\* returned, however many blank lines come before it (here on a text that
\* clean_text leaves as it is).
C10_WindowIsFirstNonBlankLines ==
    (pc = "done" /\ clean_text(text) = text) =>
        LET nonblank == Take(NonBlank(splitlines(text)), NameWindow)
        IN  (\E k \in 1..Len(nonblank) : Qualifies(nonblank[k])) => FromALine(result.ret)

-----------------------------------------------------------------------------
(* extract_projects, and the statement of parse_file that follows it, on   *)
(* texts of a few lines under a header or none, and on lists of bullets    *)

MaxProjectLines == 2
MaxBullets == 12
PROJECT_HEADERS == {"", "Projects:\n"}
PROJECT_LINES == {"- alpha beta beta", "- alpha beta", "- abcde.", "1. Chat App", "Chat App",
                  "Built with React and Node"}
BULLET_NAMES == "abcdefghijk"

\* n bullets, the names of which repeat after the last of BULLET_NAMES
BulletText(n) ==
    join("\n", [k \in 1..n |-> "- task " \o Ch(BULLET_NAMES, ((k - 1) % Len(BULLET_NAMES)) + 1)])

ProjectTexts ==
    {h \o t : h \in PROJECT_HEADERS, t \in LineTexts(PROJECT_LINES, MaxProjectLines)}
      \cup {BulletText(n) : n \in 0..MaxBullets}

ProjectsInit ==
    /\ pc = "start"
    /\ text \in ProjectTexts
    /\ result = <<>>
    /\ vocab = <<>> /\ folder = <<>> /\ idx = 0 /\ records = <<>>

\* what extract_projects holds and returns, for its list `projects`
ProjectsLocals(projects) ==
    [candidates |-> projects, ret |-> ProjectsReturn(projects), entries |-> <<>>]

\* projects, c_proj = extract_projects(text), with the list `projects` the
\* function holds before its final loop
ProjectsCall ==
    /\ pc = "start"
    /\ result' = ProjectsLocals(ProjectCandidates(text))
    /\ pc' = "extracted"
    /\ UNCHANGED <<text, vocab, folder, idx, records>>

\* projects = [remove_duplicate_words(p) for p in projects]
ProjectsDedup ==
    /\ pc = "extracted"
    /\ result' = [result EXCEPT !.entries = DedupEach(result.ret[1])]
    /\ pc' = "done"
    /\ UNCHANGED <<text, vocab, folder, idx, records>>

ProjectsNext == ProjectsCall \/ ProjectsDedup

SpecProjects == ProjectsInit /\ [][ProjectsNext]_vars

\* C2: the projects list of the record has at most 10 entries, and no two
\* of them are equal after trimming.
C2_ProjectsDistinct ==
    pc = "done" =>
        /\ Len(result.entries) <= MaxProjects
        /\ \A i, j \in 1..Len(result.entries) :
               i < j => strip(result.entries[i]) # strip(result.entries[j])

Trimmed(p) == StripSet(p, PROJECT_STRIP)

\* the candidates that no earlier candidate equals after trimming
FirstOfTheirKind(projects) ==
    {k \in 1..Len(projects) : \A j \in 1..(k - 1) : Trimmed(projects[j]) # Trimmed(projects[k])}

\* C9 as claimed: every candidate is in the output (trimmed), or equal after
\* trimming to an earlier candidate, or beyond the 10th survivor.
C9_EveryCandidateKept ==
    pc = "extracted" =>
        LET survivors == FirstOfTheirKind(result.candidates)
        IN  \A k \in survivors :
                Rank(survivors, k) <= MaxProjects
                    => InList(Trimmed(result.candidates[k]), result.ret[1])

\* C9 as amended: the candidates are trimmed of the characters " .-_", those
\* of at most 5 characters are dropped, the rest is deduplicated by equality
\* keeping the first occurrence, and the first 10 survivors are returned in
\* order; the confidence is 0.9 when the list is not empty and 0.0 otherwise.
C9_MergePolicy ==
    pc = "extracted" =>
        LET projects == result.candidates
            out == result.ret[1]
            survivors == {k \in FirstOfTheirKind(projects) : Len(Trimmed(projects[k])) > MinProjectLen}
        IN  /\ Len(out) = (IF Cardinality(survivors) < MaxProjects
                           THEN Cardinality(survivors) ELSE MaxProjects)
            /\ \A k \in survivors :
                   Rank(survivors, k) <= MaxProjects => out[Rank(survivors, k)] = Trimmed(projects[k])
            /\ result.ret[2] = (IF out # <<>> THEN Conf(9, 10) ELSE Conf(0, 1))

\* a repeated candidate was dropped, and an 11th survivor was cut
C9_Witness ==
    /\ pc = "extracted"
    /\ Len(result.candidates) > Cardinality(FirstOfTheirKind(result.candidates))
    /\ Cardinality(FirstOfTheirKind(result.candidates)) > MaxProjects
    /\ Len(result.ret[1]) = MaxProjects
    /\ result.ret[2] = Conf(9, 10)

-----------------------------------------------------------------------------
(* The extractors of parse_file one after the other, and the confidence    *)
(* map, on texts of a few lines and on vocabularies of a few skills        *)

MaxConfLines == 3
MaxVocab == 5
CONF_LINES == <<"Ann Lee", "9876543210 a@b.co", "linkedin.com/in/ann github.com/ann",
                "CGPA: 8.5", "python java react", "- chat app">>
VOCAB_POOL == <<"python", "java", "react", "sql", "aws", "docker">>

\* the lines of CONF_LINES at the positions S, in order
ConfText(S) ==
    LET at == AscendingRange(S, 1, Len(CONF_LINES))
    IN  join("\n", [k \in 1..Len(at) |-> CONF_LINES[at[k]]])

ConfTexts == {ConfText(S) : S \in {T \in SUBSET (1..Len(CONF_LINES)) : Cardinality(T) <= MaxConfLines}}
ConfVocabs == {Take(VOCAB_POOL, n) : n \in 0..MaxVocab}

\* the dictionary d with d[k] = v
With(d, k, v) == [x \in DOMAIN d \cup {k} |-> IF x = k THEN v ELSE d[x]]

ConfInit ==
    /\ pc = "start"
    /\ text \in ConfTexts
    /\ vocab \in ConfVocabs
    /\ result = [conf |-> <<>>, percent |-> <<>>]
    /\ folder = <<>> /\ idx = 0 /\ records = <<>>

\* one statement of parse_file: the confidence of an extractor is kept
ConfStep(from, to, key, conf) ==
    /\ pc = from
    /\ result' = [result EXCEPT !.conf = With(@, key, conf)]
    /\ pc' = to
    /\ UNCHANGED <<text, vocab, folder, idx, records>>

ConfName == ConfStep("start", "name", "name", extract_name(text)[2])
ConfContacts == ConfStep("name", "contacts", "contact", extract_contacts(text)[2])
ConfSkills == ConfStep("contacts", "skills", "skills", extract_skills(text, vocab)[2])
ConfCgpa == ConfStep("skills", "cgpa", "cgpa", extract_cgpa(text)[2])
ConfProjects == ConfStep("cgpa", "projects", "projects", extract_projects(text)[2])
ConfExperience == ConfStep("projects", "experience", "experience", extract_experience(text)[2])

\* conf = section_confidence_map({...})
ConfMap ==
    /\ pc = "experience"
    /\ result' = [result EXCEPT
                    !.percent = section_confidence_map(With(result.conf, "education", EDUCATION_CONF))]
    /\ pc' = "done"
    /\ UNCHANGED <<text, vocab, folder, idx, records>>

ConfNext ==
    \/ ConfName
    \/ ConfContacts
    \/ ConfSkills
    \/ ConfCgpa
    \/ ConfProjects
    \/ ConfExperience
    \/ ConfMap

SpecConf == ConfInit /\ [][ConfNext]_vars

\* C3: every confidence an extractor returns lies between 0.0 and 0.99, and
\* every value of the confidence map is an integer between 0 and 99.
C3_ConfidenceRange ==
    /\ \A k \in DOMAIN result.conf :
           ConfLeq(Conf(0, 1), result.conf[k]) /\ ConfLeq(result.conf[k], Conf(99, 100))
    /\ \A k \in DOMAIN result.percent : result.percent[k] \in 0..99

\* the four contact fields were found, and the score was capped
C3_Witness ==
    /\ pc = "done"
    /\ DOMAIN extract_contacts(text)[1] = {"phone", "email", "linkedin", "github"}
    /\ result.conf["contact"] = Conf(99, 100)
    /\ result.percent["contact"] = 99
    /\ DOMAIN result.percent = {"name", "contact", "skills", "education", "cgpa", "projects", "experience"}

-----------------------------------------------------------------------------
(* parse_folder over a directory listing, with every kind of skills file *)

MaxFiles == 3

FILES == {
    File("cv1.txt", "Ann Lee\na@b.co\nreact\n- chat app", ""),
    File("CV2.PDF", "", "cannot open broken document"),
    File("cv3.docx", "  ", ""),
    File("old.txt", "", "Is a directory"),
    File("notes.md", "Ann Lee", "") }

SKILLS_FILES == {
    NoFile("absent"), NoFile("unreadable"), NoFile("invalid_json"),
    JsonFile(JsonList("str", <<"react", "go">>)),
    JsonFile(JsonList("int", <<1, 2>>)),
    JsonFile(JsonObject(<<"react">>)),
    JsonFile(JsonString("go")),
    JsonFile(JsonNumber),
    JsonFile(JsonNull) }

\* the listings folder.glob("*") can yield: no entry twice
Listings ==
    UNION {{l \in [1..n -> FILES] : \A i, j \in 1..n : i # j => l[i] # l[j]} : n \in 0..MaxFiles}

Init ==
    /\ pc = "loop"
    /\ folder \in Listings
    /\ vocab \in SKILLS_FILES
    /\ idx = 0
    /\ records = <<>>
    /\ text = ""
    /\ result = <<>>

\* an iteration on an entry whose suffix is not one of the three
SkipEntry ==
    /\ pc = "loop"
    /\ idx < Len(folder)
    /\ ~Eligible(folder[idx + 1])
    /\ idx' = idx + 1
    /\ UNCHANGED <<pc, text, vocab, result, folder, records>>

\* the try statement when parse_file returns
TryBody(file, outcome) ==
    /\ outcome.ok
    /\ records' = AfterTry(records, file, outcome)

\* the try statement when parse_file raises
ExceptBody(file, outcome) ==
    /\ ~outcome.ok
    /\ records' = AfterTry(records, file, outcome)

\* an iteration in which parse_file returns
TryEntry ==
    /\ pc = "loop"
    /\ idx < Len(folder)
    /\ Eligible(folder[idx + 1])
    /\ TryBody(folder[idx + 1], parse_file(folder[idx + 1], vocab))
    /\ idx' = idx + 1
    /\ UNCHANGED <<pc, text, vocab, result, folder>>

\* an iteration in which parse_file raises
ExceptEntry ==
    /\ pc = "loop"
    /\ idx < Len(folder)
    /\ Eligible(folder[idx + 1])
    /\ ExceptBody(folder[idx + 1], parse_file(folder[idx + 1], vocab))
    /\ idx' = idx + 1
    /\ UNCHANGED <<pc, text, vocab, result, folder>>

\* the loop is over: return pd.DataFrame(records)
ReturnFrame ==
    /\ pc = "loop"
    /\ idx = Len(folder)
    /\ pc' = "done"
    /\ result' = records
    /\ UNCHANGED <<text, vocab, folder, idx, records>>

Next == SkipEntry \/ TryEntry \/ ExceptEntry \/ ReturnFrame

Spec == Init /\ [][Next]_vars

RECORD_KEYS == {"file", "name", "contacts", "skills", "cgpa", "projects", "projects_text",
                "experience", "confidence", "language", "raw_text"}

EligibleSoFar == SelectSeq(SubSeq(folder, 1, idx), Eligible)

\* C1: the records are those of the eligible files visited so far, one each
\* and in order: the extraction record where parse_file returned, the error
\* record of the file's name and the reason where it raised; and the frame is
\* returned only when every entry has been visited.
C1_OneRecordPerEligibleFile ==
    /\ Len(records) = Len(EligibleSoFar)
    /\ \A k \in 1..Len(EligibleSoFar) :
         LET file == EligibleSoFar[k]
             outcome == parse_file(file, vocab)
         IN  /\ records[k].file = file.name
             /\ outcome.ok => DOMAIN records[k] = RECORD_KEYS /\ records[k] = outcome.value
             /\ ~outcome.ok => records[k] = [file |-> file.name, error |-> outcome.error]
    /\ pc = "done" => idx = Len(folder) /\ result = records

\* the batch ended with a record after an error record: a failure in the
\* middle of the listing
C1_Witness ==
    /\ pc = "done"
    /\ \E k \in 1..(Len(records) - 1) :
         /\ "error" \in DOMAIN records[k]
         /\ DOMAIN records[k + 1] = RECORD_KEYS
    /\ \E k \in 1..Len(folder) : ~Eligible(folder[k])

ValidVocabulary(skills_file) ==
    /\ skills_file.kind = "json"
    /\ skills_file.value.type = "list"
    /\ skills_file.value.of = "str"

\* C6: with a skills file that is missing or is not a list of strings,
\* load_skills_dict yields the default vocabulary, and every readable
\* document gets its record, with the skills found against the default.
C6_DefaultVocabulary ==
    ~ValidVocabulary(vocab) =>
        /\ load_skills_dict(vocab) = JsonList("str", DEFAULT_SKILLS)
        /\ \A k \in 1..Len(EligibleSoFar) :
             EligibleSoFar[k].fault = "" =>
                 /\ DOMAIN records[k] = RECORD_KEYS
                 /\ records[k].skills =
                      extract_skills(clean_text(EligibleSoFar[k].raw), DEFAULT_SKILLS)[1]
====
